---- MODULE Spec2Model ----
(***************************************************************************)
(* Model of the commit-event scheduler of fake-history:                     *)
(* GitHistoryFaker.run_backfill of vary_history.py, as a state machine.     *)
(* One run of run_backfill is one behaviour: Init fixes the configuration   *)
(* and the arguments, the actions are the blocks of the function.           *)
(***************************************************************************)
EXTENDS Integers, Sequences, FiniteSets, TLC

(* ---------------------------- bounds ---------------------------------- *)
\* last calendar day (days are numbered 0..MaxDay) a date argument can name
MaxDay == 1
\* largest configured max_commits_per_cluster
MaxCluster == 24
\* random.random() is drawn from {0/FreqDen .. (FreqDen-1)/FreqDen}
FreqDen == 2
\* number of values of the cluster-count range that are explored (both ends
\* included)
Samples == 2

(* ----------------------- program constants ---------------------------- *)
AnchorHourLo == 10
AnchorHourHi == 16
AnchorMinuteHi == 59
JitterLo == 5
JitterHi == 20
LastHour == 23
MinutesPerHour == 60

\* persona_cfg["commit_messages"]
commit_messages == {"feat: Test feature", "fix: Test fix"}

\* f"{author['name']} <{author['email']}>"
author_str == "Test User <test@example.com>"

\* the scripted integer draws of the injected random source
TestScript == <<10, 5, 10, 14, 25, 10, 18, 55, 10>>

VARIABLES
  start_date, end_date,      \* arguments: date strings [ok, day]
  dry_run,                   \* argument
  freq,                      \* commit_frequency_per_day, in units of 1/FreqDen
  clustering_enabled, min_c, max_c,
  scripted, script,          \* injected integer source and what is left of it
  pc,                        \* position in run_backfill
  current_dt, end_dt,        \* the while loop's day and its limit
  num_commits, base_hour, base_minute, i,
  commit_dt, commit_msg,     \* the event computed last
  commit_i,                  \* the loop index the event computed last had
  u, jit,                    \* the last random.random() and jitter draws
  visited,                   \* days the while body ran for, in order
  active,                    \* days that passed the activity gate
  dayCount,                  \* events that survived in the current day
  survived,                  \* events that survived in the whole run
  dryLines,                  \* 'Would create commit' lines printed
  appended, staged, commits, \* content file lines, index state, commits made
  summary,                   \* terminal line printed: none, dry, complete
  last_line,                 \* timestamp text of the line appended last
  last_commit,               \* dates, author and message of the commit made last
  err,                       \* what aborted the run: none, parse, range, add, commit
  entry,                     \* entry point: none (direct call), run, backfill, cloud
  apc,                       \* position in the entry point's handler
  config_file,               \* config.json: ok, missing, empty
  dates_given,               \* start and end dates come from the flags or the config
  wh, skip_run_chance,       \* run_settings: working_hours and skip_run_chance
  now,                       \* datetime.now(): [weekday, hour]
  gate, gate_msg,            \* result of is_time_to_work and the line it printed
  gate_calls, gate_draws,    \* calls of is_time_to_work, random.random() draws in it
  gate_u,                    \* the value is_time_to_work drew
  altered,                   \* calls of alter_recent_commits
  env_ok,                    \* GH_PAT and REPO_URL are both set
  temp_dir,                  \* the temporary directory: none, created, removed
  to_create,                 \* commits_to_create
  changes, created, pushed,  \* content changes, commits and pushes of the cloud run
  outcome,                   \* how the cloud run ends: none, return, raise
  mode,                      \* single run (every: with all anchor and jitter values),
                             \* or a run whose draws are recorded / replayed
  tape, tpos,                \* the generator's draws in order, and how many are replayed
  log, log1                  \* (timestamp, message) output of this run and of the run before

cfgVars == <<start_date, end_date, dry_run, freq, clustering_enabled, min_c,
             max_c, scripted>>

gitVars == <<last_line, last_commit, err>>

\* the seeded generator and the output of a pair of runs
pairVars == <<mode, tape, tpos, log, log1>>

\* the variables of run_backfill but pc
backfillRest == <<cfgVars, gitVars, pairVars, script, current_dt, end_dt, num_commits,
                  base_hour, base_minute, i, commit_dt, commit_msg, commit_i, u,
                  jit, visited, active, dayCount, survived, dryLines, appended,
                  staged, commits, summary>>

gateCfg == <<config_file, dates_given, wh, skip_run_chance, now, env_ok>>

gateVars == <<gate, gate_msg, gate_calls, gate_draws, gate_u>>

cloudVars == <<temp_dir, to_create, changes, created, pushed, outcome>>

\* the variables of the entry points
appVars == <<entry, apc, gateCfg, gateVars, altered, cloudVars>>

vars == <<pc, backfillRest, appVars>>

(* ----------------------------- helpers -------------------------------- *)
Range(s) == {s[k] : k \in 1..Len(s)}

\* a date-only ISO string: well formed with a day number, or malformed
DateStrings == [ok : {TRUE}, day : 0..MaxDay] \cup {[ok |-> FALSE, day |-> 0]}

\* the start dates explored: the first two days, or a malformed string
StartStrings == {d \in DateStrings : d.day <= 1}

\* datetime.fromisoformat of a date-only string: midnight of that day
FromIso(s) == [day |-> s.day, hour |-> 0, minute |-> 0, second |-> 0]

\* datetime.replace(hour=, minute=)
Replace(dt, h, m) == [dt EXCEPT !.hour = h, !.minute = m]

\* dt + timedelta(days=1)
NextDay(dt) == [dt EXCEPT !.day = dt.day + 1]

\* datetime ordering, as seconds since day 0
Stamp(dt) == ((dt.day * 24 + dt.hour) * MinutesPerHour + dt.minute) * 60 + dt.second

\* the values of lo..hi explored for one random.randint(lo, hi)
Sample(lo, hi) ==
  IF hi - lo < Samples THEN lo..hi
  ELSE {lo + ((hi - lo) * t) \div (Samples - 1) : t \in 0..(Samples - 1)}

\* mutant: the upper end of the range is taken as exclusive-plus-one
RandIntWide(lo, hi, k) == IF scripted THEN {script[k]} ELSE Sample(lo, hi + 1)

\* one draw of the generator: the call that made it and its value
TapeDraw(kind, val) == [kind |-> kind, val |-> val]

\* the n-th draw of the current step: under a replay the value the generator
\* gave at that position of its sequence when the same call was made there,
\* otherwise any value of s
TapeAt(n, kind, s) ==
  IF /\ mode = "replay"
     /\ tpos + n <= Len(tape)
     /\ tape[tpos + n].kind = kind
     /\ tape[tpos + n].val \in s
    THEN {tape[tpos + n].val}
    ELSE s

\* draws of the current step that precede its integer draws: the
\* random.random() of the activity gate
IntOffset == IF pc = "while" THEN 1 ELSE 0

\* random.randint(lo, hi) as the k-th integer draw of the current step
RandInt(lo, hi, k) ==
  IF scripted THEN {script[k]} ELSE TapeAt(IntOffset + k, "randint", Sample(lo, hi))

\* the values of lo..hi explored for an anchor or a jitter: the two ends of
\* the range, or every value in a run that explores one cluster exhaustively
Explored(lo, hi) == IF mode = "every" THEN lo..hi ELSE {lo, hi}

\* random.randint(lo, hi) for an anchor
RandAnchor(lo, hi, k) ==
  IF scripted THEN {script[k]} ELSE TapeAt(IntOffset + k, "randint", Explored(lo, hi))

\* random.randint(5, 20) for a jitter
RandJitter(lo, hi, k) ==
  IF scripted THEN {script[k]} ELSE TapeAt(IntOffset + k, "randint", Explored(lo, hi))

\* random.random() in [0,1), in units of 1/FreqDen
Uniform == 0..(FreqDen - 1)

\* random.random() as the first draw of the current step
RandUniform == TapeAt(1, "random", Uniform)

\* the messages explored: all of them, or one in a run that explores the
\* anchors and jitters of one cluster exhaustively
ExploredMessages ==
  IF mode = "every" THEN {CHOOSE m \in commit_messages : TRUE} ELSE commit_messages

\* random.choice(commit_messages) as the second draw of the current step
RandChoice == TapeAt(2, "choice", ExploredMessages)

\* mutant: the gate compares with <=
GateActiveLeq(draw, f) == draw <= f

\* random.random() < commit_frequency_per_day
GateActive(draw, f) == draw < f

\* mutant: the loop stops before the end date
WhileCondStrict(cur, lim) == Stamp(cur) < Stamp(lim)

\* while current_dt <= end_dt
WhileCond(cur, lim) == Stamp(cur) <= Stamp(lim)

\* mutant: the jitter is added, not multiplied by the index
CommitTotalAdd(bm, idx, j) == bm + j

\* commit_minute = base_minute + (i * random.randint(5, 20))
CommitTotal(bm, idx, j) == bm + (idx * j)

\* commit_hour = base_hour + (commit_minute // 60)
CommitHour(bh, total) == bh + (total \div MinutesPerHour)

\* commit_minute %= 60
CommitMinute(total) == total % MinutesPerHour

\* mutant: hour 24 is let through
OverflowLate(h) == h > LastHour + 1

\* mutant: hour 23 is dropped too
OverflowEarly(h) == h >= LastHour

\* if commit_hour > 23: continue
Overflow(h) == h > LastHour

\* largest cluster count no member of which can overflow:
\* 16 + (59 + 21 * 20) // 60 = 23 and 16 + (59 + 22 * 20) // 60 = 24
NoDropCount == 22

\* the (min_commits_per_cluster, max_commits_per_cluster) pairs explored
ClusterPairs ==
  {<<2, 2>>, <<2, 1>>, <<1, 2>>, <<MaxCluster - 1, MaxCluster>>,
   <<MaxCluster, MaxCluster>>}
    \cup (IF NoDropCount <= MaxCluster THEN {<<NoDropCount, NoDropCount>>} ELSE {})

NoDt == [day |-> 0, hour |-> 0, minute |-> 0, second |-> 0]

\* datetime.isoformat(): the text YYYY-MM-DDTHH:MM:SS, as its four numbers
IsoFormat(dt) == <<dt.day, dt.hour, dt.minute, dt.second>>

\* the generator has given the draws ds: they are recorded, or counted as replayed
Consume(ds) ==
  /\ tape' = IF mode = "record" THEN tape \o ds ELSE tape
  /\ tpos' = IF mode = "replay" THEN tpos + Len(ds) ELSE tpos

\* a (timestamp, message) pair is printed or committed
Logged(dt, msg) ==
  log' = IF mode \in {"record", "replay"} THEN Append(log, <<IsoFormat(dt), msg>>) ELSE log

NoText == <<>>

NoCommit == [author_date |-> NoText, committer_date |-> NoText, author |-> ""]

(* ------------------------------- Init --------------------------------- *)
InitLocals ==
  /\ current_dt = NoDt /\ end_dt = NoDt
  /\ num_commits = 0 /\ base_hour = 0 /\ base_minute = 0 /\ i = 0
  /\ commit_dt = NoDt /\ commit_msg = "" /\ commit_i = 0
  /\ u = 0 /\ jit = 0
  /\ visited = <<>> /\ active = {}
  /\ dayCount = 0 /\ survived = 0 /\ dryLines = 0
  /\ appended = 0 /\ staged = FALSE /\ commits = 0
  /\ summary = "none"
  /\ last_line = NoText /\ last_commit = NoCommit /\ err = "none"

\* the working hours of the test fixture
DefaultHours ==
  [enabled |-> TRUE, start_hour |-> 9, end_hour |-> 17,
   work_on_saturday |-> FALSE, work_on_sunday |-> FALSE]

\* a Monday at 12
DefaultNow == [weekday |-> 0, hour |-> 12]

\* nothing of an entry point has run
AppLocals ==
  /\ gate = "none" /\ gate_msg = "none"
  /\ gate_calls = 0 /\ gate_draws = 0 /\ gate_u = 0
  /\ altered = 0
  /\ temp_dir = "none" /\ to_create = 0
  /\ changes = 0 /\ created = 0 /\ pushed = 0
  /\ outcome = "none"

\* run_backfill is called directly, as the tests do: no entry point runs
AppIdle ==
  /\ entry = "none" /\ apc = "idle"
  /\ config_file = "ok" /\ dates_given = TRUE /\ env_ok = TRUE
  /\ wh = DefaultHours /\ skip_run_chance = 0 /\ now = DefaultNow
  /\ AppLocals

\* one run under a generator that is not seeded: nothing is recorded
PairIdle == mode = "single" /\ tape = <<>> /\ tpos = 0 /\ log = <<>> /\ log1 = <<>>

InitRun ==
  /\ pc = "start"
  /\ InitLocals
  /\ AppIdle
  /\ PairIdle

\* a run under Python's random module
Init ==
  /\ start_date \in StartStrings /\ end_date \in DateStrings
  /\ dry_run \in BOOLEAN
  /\ freq \in 0..FreqDen
  /\ \/ clustering_enabled = FALSE /\ min_c = 1 /\ max_c = 4
     \/ clustering_enabled = TRUE /\ \E p \in ClusterPairs : min_c = p[1] /\ max_c = p[2]
  /\ scripted = FALSE /\ script = <<>>
  /\ InitRun

\* the run of the scripted-draws test: three days, frequency 1.0, no clustering
InitScripted ==
  /\ start_date = [ok |-> TRUE, day |-> 0] /\ end_date = [ok |-> TRUE, day |-> 2]
  /\ dry_run \in BOOLEAN
  /\ freq = FreqDen
  /\ clustering_enabled = FALSE /\ min_c = 1 /\ max_c = 4
  /\ scripted = TRUE /\ script = TestScript
  /\ InitRun

(* ------------------------------ actions ------------------------------- *)
\* lines 57-65: both dates parse, the loop starts at start_dt
ParseDates ==
  /\ pc = "start"
  /\ start_date.ok /\ end_date.ok
  /\ current_dt' = FromIso(start_date)
  /\ end_dt' = FromIso(end_date)
  /\ pc' = "while"
  /\ UNCHANGED <<appVars, pairVars, cfgVars, gitVars, script, num_commits, base_hour, base_minute, i,
                 commit_dt, commit_msg, commit_i, u, jit, visited, active,
                 dayCount, survived, dryLines, appended, staged, commits, summary>>

\* lines 57-58: datetime.fromisoformat raises ValueError
ParseError ==
  /\ pc = "start"
  /\ ~(start_date.ok /\ end_date.ok)
  /\ pc' = "error"
  /\ err' = "parse"
  /\ UNCHANGED <<appVars, pairVars, cfgVars, last_line, last_commit, script, current_dt, end_dt, num_commits, base_hour,
                 base_minute, i, commit_dt, commit_msg, commit_i, u, jit,
                 visited, active, dayCount, survived, dryLines, appended,
                 staged, commits, summary>>

\* lines 66-67, 95: the day does not pass the activity gate
DaySkipped ==
  /\ pc = "while"
  /\ WhileCond(current_dt, end_dt)
  /\ \E draw \in RandUniform :
       /\ ~GateActive(draw, freq)
       /\ u' = draw
  /\ visited' = Append(visited, current_dt.day)
  /\ current_dt' = NextDay(current_dt)
  /\ Consume(<<TapeDraw("random", u')>>)
  /\ UNCHANGED <<appVars, mode, log, log1, cfgVars, gitVars, script, pc, end_dt, num_commits, base_hour, base_minute,
                 i, commit_dt, commit_msg, commit_i, jit, active, dayCount,
                 survived, dryLines, appended, staged, commits, summary>>

\* lines 66-77: the day passes the gate; count, anchor hour and minute are drawn
ClusterPlanned ==
  /\ pc = "while"
  /\ WhileCond(current_dt, end_dt)
  /\ \E draw \in RandUniform :
       /\ GateActive(draw, freq)
       /\ u' = draw
  /\ scripted \/ ~clustering_enabled \/ min_c <= max_c
  /\ LET k == IF clustering_enabled THEN 1 ELSE 0 IN
       /\ IF clustering_enabled
            THEN num_commits' \in RandInt(min_c, max_c, 1)
            ELSE num_commits' = 1
       /\ base_hour' \in RandAnchor(AnchorHourLo, AnchorHourHi, k + 1)
       /\ base_minute' \in RandAnchor(0, AnchorMinuteHi, k + 2)
       /\ script' = IF scripted THEN SubSeq(script, k + 3, Len(script)) ELSE script
  /\ visited' = Append(visited, current_dt.day)
  /\ active' = active \cup {current_dt.day}
  /\ i' = 0
  /\ dayCount' = 0
  /\ pc' = "for"
  /\ Consume(<<TapeDraw("random", u')>>
               \o (IF clustering_enabled THEN <<TapeDraw("randint", num_commits')>> ELSE <<>>)
               \o <<TapeDraw("randint", base_hour'), TapeDraw("randint", base_minute')>>)
  /\ UNCHANGED <<appVars, mode, log, log1, cfgVars, gitVars, current_dt, end_dt, commit_dt, commit_msg, commit_i,
                 jit, survived, dryLines, appended, staged, commits, summary>>

\* line 72: random.randint(min_c, max_c) raises ValueError on an empty range
ClusterRangeError ==
  /\ pc = "while"
  /\ WhileCond(current_dt, end_dt)
  /\ \E draw \in RandUniform :
       /\ GateActive(draw, freq)
       /\ u' = draw
  /\ ~scripted /\ clustering_enabled /\ min_c > max_c
  /\ visited' = Append(visited, current_dt.day)
  /\ active' = active \cup {current_dt.day}
  /\ pc' = "error"
  /\ err' = "range"
  /\ Consume(<<TapeDraw("random", u')>>)
  /\ UNCHANGED <<appVars, mode, log, log1, cfgVars, last_line, last_commit, script, current_dt, end_dt, num_commits, base_hour,
                 base_minute, i, commit_dt, commit_msg, commit_i, jit, dayCount,
                 survived, dryLines, appended, staged, commits, summary>>

\* lines 79-83: the derived hour is past 23, the member is skipped
EventDropped ==
  /\ pc = "for"
  /\ i < num_commits
  /\ \E j \in RandJitter(JitterLo, JitterHi, 1) :
       /\ Overflow(CommitHour(base_hour, CommitTotal(base_minute, i, j)))
       /\ jit' = j
  /\ script' = IF scripted THEN Tail(script) ELSE script
  /\ i' = i + 1
  /\ Consume(<<TapeDraw("randint", jit')>>)
  /\ UNCHANGED <<appVars, mode, log, log1, cfgVars, gitVars, pc, current_dt, end_dt, num_commits, base_hour,
                 base_minute, commit_dt, commit_msg, commit_i, u, visited,
                 active, dayCount, survived, dryLines, appended, staged,
                 commits, summary>>

\* lines 79-86: the member survives; its timestamp and message are fixed
Survives(j, msg) ==
  LET total == CommitTotal(base_minute, i, j) IN
    /\ ~Overflow(CommitHour(base_hour, total))
    /\ jit' = j
    /\ commit_dt' = Replace(current_dt, CommitHour(base_hour, total), CommitMinute(total))
    /\ commit_msg' = msg
    /\ commit_i' = i
    /\ dayCount' = dayCount + 1
    /\ survived' = survived + 1
    /\ script' = IF scripted THEN Tail(script) ELSE script

\* mutant: the content change is made before dry_run is looked at
EventDryRunTouches ==
  /\ pc = "for"
  /\ i < num_commits
  /\ dry_run
  /\ \E j \in RandJitter(JitterLo, JitterHi, 1), msg \in RandChoice : Survives(j, msg)
  /\ dryLines' = dryLines + 1
  /\ appended' = appended + 1
  /\ staged' = TRUE
  /\ i' = i + 1
  /\ Consume(<<TapeDraw("randint", jit'), TapeDraw("choice", commit_msg')>>)
  /\ Logged(commit_dt', commit_msg')
  /\ UNCHANGED <<appVars, mode, log1, cfgVars, gitVars, pc, current_dt, end_dt, num_commits, base_hour,
                 base_minute, u, visited, active, commits, summary>>

\* mutant: the dry run prints a fixed message and makes no random.choice
EventDryRunNoChoice ==
  /\ pc = "for"
  /\ i < num_commits
  /\ dry_run
  /\ \E j \in RandJitter(JitterLo, JitterHi, 1) :
       Survives(j, CHOOSE m \in commit_messages : TRUE)
  /\ dryLines' = dryLines + 1
  /\ i' = i + 1
  /\ Consume(<<TapeDraw("randint", jit')>>)
  /\ Logged(commit_dt', commit_msg')
  /\ UNCHANGED <<appVars, mode, log1, cfgVars, gitVars, pc, current_dt, end_dt, num_commits, base_hour,
                 base_minute, u, visited, active, appended, staged, commits,
                 summary>>

\* lines 79-86, 93-94: dry run, the event is printed
EventDryRun ==
  /\ pc = "for"
  /\ i < num_commits
  /\ dry_run
  /\ \E j \in RandJitter(JitterLo, JitterHi, 1), msg \in RandChoice : Survives(j, msg)
  /\ dryLines' = dryLines + 1
  /\ i' = i + 1
  /\ Consume(<<TapeDraw("randint", jit'), TapeDraw("choice", commit_msg')>>)
  /\ Logged(commit_dt', commit_msg')
  /\ UNCHANGED <<appVars, mode, log1, cfgVars, gitVars, pc, current_dt, end_dt, num_commits, base_hour,
                 base_minute, u, visited, active, appended, staged, commits,
                 summary>>

\* lines 79-88: real run, the event goes on to the content change
EventReal ==
  /\ pc = "for"
  /\ i < num_commits
  /\ ~dry_run
  /\ \E j \in RandJitter(JitterLo, JitterHi, 1), msg \in RandChoice : Survives(j, msg)
  /\ pc' = "change"
  /\ Consume(<<TapeDraw("randint", jit'), TapeDraw("choice", commit_msg')>>)
  /\ UNCHANGED <<appVars, mode, log, log1, cfgVars, gitVars, current_dt, end_dt, num_commits, base_hour,
                 base_minute, i, u, visited, active, dryLines, appended,
                 staged, commits, summary>>

\* line 89, make_content_change: append a line, then git add (which may fail)
MakeContentChange ==
  /\ pc = "change"
  /\ appended' = appended + 1
  /\ last_line' = IsoFormat(commit_dt)
  /\ \E ok \in BOOLEAN :
       IF ok THEN staged' = TRUE /\ pc' = "commit" /\ err' = err
             ELSE staged' = staged /\ pc' = "error" /\ err' = "add"
  /\ UNCHANGED <<appVars, pairVars, cfgVars, last_commit, script, current_dt, end_dt, num_commits,
                 base_hour, base_minute, i, commit_dt, commit_msg, commit_i, u,
                 jit, visited, active, dayCount, survived, dryLines, commits,
                 summary>>

\* mutant: GIT_COMMITTER_DATE is not set, the committer date is the clock's
GitCommitClockDate ==
  /\ pc = "commit"
  /\ \E ok \in BOOLEAN :
       IF ok THEN /\ commits' = commits + 1
                  /\ staged' = FALSE
                  /\ last_commit' = [author_date |-> IsoFormat(commit_dt),
                                     committer_date |-> NoText,
                                     author |-> author_str]
                  /\ i' = i + 1
                  /\ pc' = "for"
                  /\ err' = err
                  /\ Logged(commit_dt, commit_msg)
             ELSE /\ pc' = "error"
                  /\ err' = "commit"
                  /\ UNCHANGED <<commits, staged, i, last_commit, log>>
  /\ UNCHANGED <<appVars, mode, tape, tpos, log1, cfgVars, last_line, script, current_dt, end_dt, num_commits,
                 base_hour, base_minute, commit_dt, commit_msg, commit_i, u, jit,
                 visited, active, dayCount, survived, dryLines, appended, summary>>

\* mutant: check=True is missing, a failed commit does not stop the loop
GitCommitUnchecked ==
  /\ pc = "commit"
  /\ \E ok \in BOOLEAN :
       IF ok THEN /\ commits' = commits + 1
                  /\ staged' = FALSE
                  /\ last_commit' = [author_date |-> IsoFormat(commit_dt),
                                     committer_date |-> IsoFormat(commit_dt),
                                     author |-> author_str]
                  /\ err' = err
                  /\ Logged(commit_dt, commit_msg)
             ELSE /\ err' = "commit"
                  /\ UNCHANGED <<commits, staged, last_commit, log>>
  /\ i' = i + 1
  /\ pc' = "for"
  /\ UNCHANGED <<appVars, mode, tape, tpos, log1, cfgVars, last_line, script, current_dt, end_dt, num_commits,
                 base_hour, base_minute, commit_dt, commit_msg, commit_i, u, jit,
                 visited, active, dayCount, survived, dryLines, appended, summary>>

\* lines 90-92: git commit --author --date with GIT_COMMITTER_DATE, check=True
\* (which may fail)
GitCommit ==
  /\ pc = "commit"
  /\ \E ok \in BOOLEAN :
       IF ok THEN /\ commits' = commits + 1
                  /\ staged' = FALSE
                  /\ last_commit' = [author_date |-> IsoFormat(commit_dt),
                                     committer_date |-> IsoFormat(commit_dt),
                                     author |-> author_str]
                  /\ i' = i + 1
                  /\ pc' = "for"
                  /\ err' = err
                  /\ Logged(commit_dt, commit_msg)
             ELSE /\ pc' = "error"
                  /\ err' = "commit"
                  /\ UNCHANGED <<commits, staged, i, last_commit, log>>
  /\ UNCHANGED <<appVars, mode, tape, tpos, log1, cfgVars, last_line, script, current_dt, end_dt, num_commits,
                 base_hour, base_minute, commit_dt, commit_msg, commit_i, u, jit,
                 visited, active, dayCount, survived, dryLines, appended, summary>>

\* lines 79, 95: the for loop is exhausted, the next day starts
ClusterDone ==
  /\ pc = "for"
  /\ i >= num_commits
  /\ current_dt' = NextDay(current_dt)
  /\ pc' = "while"
  /\ UNCHANGED <<appVars, pairVars, cfgVars, gitVars, script, end_dt, num_commits, base_hour, base_minute, i,
                 commit_dt, commit_msg, commit_i, u, jit, visited, active,
                 dayCount, survived, dryLines, appended, staged, commits, summary>>

\* mutant: the dry-run line is printed whatever dry_run is
FinishAlwaysDry ==
  /\ pc = "while"
  /\ ~WhileCond(current_dt, end_dt)
  /\ summary' = "dry"
  /\ pc' = "done"
  /\ UNCHANGED <<appVars, pairVars, cfgVars, gitVars, script, current_dt, end_dt, num_commits, base_hour,
                 base_minute, i, commit_dt, commit_msg, commit_i, u, jit,
                 visited, active, dayCount, survived, dryLines, appended,
                 staged, commits>>

\* lines 66, 97-104: the range is exhausted, the terminal line is printed
Finish ==
  /\ pc = "while"
  /\ ~WhileCond(current_dt, end_dt)
  /\ summary' = IF dry_run THEN "dry" ELSE "complete"
  /\ pc' = "done"
  /\ UNCHANGED <<appVars, pairVars, cfgVars, gitVars, script, current_dt, end_dt, num_commits, base_hour,
                 base_minute, i, commit_dt, commit_msg, commit_i, u, jit,
                 visited, active, dayCount, survived, dryLines, appended,
                 staged, commits>>

Next ==
  \/ ParseDates
  \/ ParseError
  \/ DaySkipped
  \/ ClusterPlanned
  \/ ClusterRangeError
  \/ EventDropped
  \/ EventDryRun
  \/ EventReal
  \/ MakeContentChange
  \/ GitCommit
  \/ ClusterDone
  \/ Finish

(* --------------------------- entry points ----------------------------- *)
\* run_settings defaults of create_new_commits
AlterMin == 1
AlterMax == 3

\* now.weekday() of a Saturday and of a Sunday
Saturday == 5
Sunday == 6

\* the weekdays explored: Monday, Friday, Saturday, Sunday
GateWeekdays == {0, 4, Saturday, Sunday}

\* the hours of the day explored
GateHours == {2, 8, 9, 12, 16, 17, 23}

\* the (start_hour, end_hour) windows explored
HourWindows == {<<9, 17>>, <<0, 24>>, <<17, 9>>}

WorkingHours ==
  {[enabled |-> e, start_hour |-> w[1], end_hour |-> w[2],
    work_on_saturday |-> sa, work_on_sunday |-> su] :
      e \in BOOLEAN, w \in HourWindows, sa \in BOOLEAN, su \in BOOLEAN}

\* mutant: only a missing file ends the process, an empty object does not
ConfigLoadedNotNone(c) == c # "missing"

\* __init__: 'not self.config' is false
ConfigLoaded(c) == c = "ok"

\* the weekend test of is_time_to_work
WeekendBreak(t, w) ==
  \/ t.weekday = Saturday /\ ~w.work_on_saturday
  \/ t.weekday = Sunday /\ ~w.work_on_sunday

\* mutant: the window is closed at end_hour
InHoursClosed(h, lo, hi) == lo <= h /\ h <= hi

\* start_hour <= now.hour < end_hour
InHours(h, lo, hi) == lo <= h /\ h < hi

\* mutant: the random value is drawn before the weekend and hour tests
IsTimeToWorkEager(w, chance, t, draw) ==
  IF ~w.enabled THEN [proceed |-> TRUE, drew |-> FALSE, msg |-> "none"]
  ELSE IF WeekendBreak(t, w) THEN [proceed |-> FALSE, drew |-> TRUE, msg |-> "weekend"]
  ELSE IF ~InHours(t.hour, w.start_hour, w.end_hour)
    THEN [proceed |-> FALSE, drew |-> TRUE, msg |-> "outside"]
  ELSE IF draw < chance THEN [proceed |-> FALSE, drew |-> TRUE, msg |-> "busy"]
  ELSE [proceed |-> TRUE, drew |-> TRUE, msg |-> "none"]

\* is_time_to_work: the result, whether random.random() was called, the line printed
IsTimeToWork(w, chance, t, draw) ==
  IF ~w.enabled THEN [proceed |-> TRUE, drew |-> FALSE, msg |-> "none"]
  ELSE IF WeekendBreak(t, w) THEN [proceed |-> FALSE, drew |-> FALSE, msg |-> "weekend"]
  ELSE IF ~InHours(t.hour, w.start_hour, w.end_hour)
    THEN [proceed |-> FALSE, drew |-> FALSE, msg |-> "outside"]
  ELSE IF draw < chance THEN [proceed |-> FALSE, drew |-> TRUE, msg |-> "busy"]
  ELSE [proceed |-> TRUE, drew |-> TRUE, msg |-> "none"]

\* handle_run, handle_backfill: faker = GitHistoryFaker()
HandleConstruct ==
  /\ apc = "main"
  /\ apc' = IF ~ConfigLoaded(config_file) THEN "exit1"
            ELSE IF entry = "run" THEN "gate" ELSE "dates"
  /\ UNCHANGED <<pc, backfillRest, entry, gateCfg, gateVars, altered, cloudVars>>

\* handle_backfill: the dates are resolved and run_backfill is called
HandleBackfillCall ==
  /\ apc = "dates"
  /\ IF dates_given THEN apc' = "backfill" /\ pc' = "start"
                    ELSE apc' = "returned" /\ pc' = pc
  /\ UNCHANGED <<backfillRest, entry, gateCfg, gateVars, altered, cloudVars>>

\* mutant: a skip is only reported, the work is done all the same
GateEvalIgnored ==
  /\ apc = "gate"
  /\ \E draw \in Uniform :
       LET r == IsTimeToWork(wh, skip_run_chance, now, draw) IN
         /\ gate' = IF r.proceed THEN "proceed" ELSE "skip"
         /\ gate_msg' = r.msg
         /\ gate_draws' = gate_draws + (IF r.drew THEN 1 ELSE 0)
         /\ gate_u' = IF r.drew THEN draw ELSE gate_u
         /\ apc' = "work"
         /\ outcome' = outcome
  /\ gate_calls' = gate_calls + 1
  /\ UNCHANGED <<pc, backfillRest, entry, gateCfg, altered, temp_dir, to_create,
                 changes, created, pushed>>

\* handle_run, run_history_variation: if faker.is_time_to_work()
GateEval ==
  /\ apc = "gate"
  /\ \E draw \in Uniform :
       LET r == IsTimeToWork(wh, skip_run_chance, now, draw) IN
         /\ gate' = IF r.proceed THEN "proceed" ELSE "skip"
         /\ gate_msg' = r.msg
         /\ gate_draws' = gate_draws + (IF r.drew THEN 1 ELSE 0)
         /\ gate_u' = IF r.drew THEN draw ELSE gate_u
         /\ apc' = IF r.proceed THEN "work"
                   ELSE IF entry = "run" THEN "returned" ELSE "finally"
         /\ outcome' = IF ~r.proceed /\ entry = "cloud" THEN "return" ELSE outcome
  /\ gate_calls' = gate_calls + 1
  /\ UNCHANGED <<pc, backfillRest, entry, gateCfg, altered, temp_dir, to_create,
                 changes, created, pushed>>

\* handle_run: faker.alter_recent_commits()
HandleRunWork ==
  /\ apc = "work" /\ entry = "run"
  /\ altered' = altered + 1
  /\ apc' = "returned"
  /\ UNCHANGED <<pc, backfillRest, entry, gateCfg, gateVars, cloudVars>>

\* run_history_variation: the environment test, then tempfile.mkdtemp()
CloudStart ==
  /\ apc = "env" /\ entry = "cloud"
  /\ IF env_ok THEN temp_dir' = "created" /\ apc' = "clone" /\ outcome' = outcome
               ELSE temp_dir' = temp_dir /\ apc' = "raised" /\ outcome' = "raise"
  /\ UNCHANGED <<pc, backfillRest, entry, gateCfg, gateVars, altered, to_create,
                 changes, created, pushed>>

\* mutant: the clone is made before the try block, its failure skips the cleanup
CloudCloneOutsideTry ==
  /\ apc = "clone"
  /\ \E ok \in BOOLEAN :
       IF ok THEN apc' = "faker" /\ outcome' = outcome
             ELSE apc' = "raised" /\ outcome' = "raise"
  /\ UNCHANGED <<pc, backfillRest, entry, gateCfg, gateVars, altered, temp_dir,
                 to_create, changes, created, pushed>>

\* run_history_variation: Repo.clone_from and the git user (which may fail)
CloudClone ==
  /\ apc = "clone"
  /\ \E ok \in BOOLEAN :
       IF ok THEN apc' = "faker" /\ outcome' = outcome
             ELSE apc' = "finally" /\ outcome' = "raise"
  /\ UNCHANGED <<pc, backfillRest, entry, gateCfg, gateVars, altered, temp_dir,
                 to_create, changes, created, pushed>>

\* run_history_variation: GitHistoryFaker(base_path=temp_dir) raises ValueError
\* when the configuration is missing or empty
CloudFaker ==
  /\ apc = "faker"
  /\ IF ConfigLoaded(config_file) THEN apc' = "gate" /\ outcome' = outcome
                                  ELSE apc' = "finally" /\ outcome' = "raise"
  /\ UNCHANGED <<pc, backfillRest, entry, gateCfg, gateVars, altered, temp_dir,
                 to_create, changes, created, pushed>>

\* create_new_commits: commits_to_create is drawn
CloudPlan ==
  /\ apc = "work" /\ entry = "cloud"
  /\ to_create' \in AlterMin..AlterMax
  /\ apc' = "c_change"
  /\ UNCHANGED <<pc, backfillRest, entry, gateCfg, gateVars, altered, temp_dir,
                 changes, created, pushed, outcome>>

\* create_new_commits: make_content_change (git add may fail)
CloudChange ==
  /\ apc = "c_change"
  /\ changes' = changes + 1
  /\ \E ok \in BOOLEAN :
       IF ok THEN apc' = "c_commit" /\ outcome' = outcome
             ELSE apc' = "finally" /\ outcome' = "raise"
  /\ UNCHANGED <<pc, backfillRest, entry, gateCfg, gateVars, altered, temp_dir,
                 to_create, created, pushed>>

\* mutant: a failed commit is swallowed, the push follows
CloudCommitUnchecked ==
  /\ apc = "c_commit"
  /\ \E ok \in BOOLEAN :
       IF ok THEN /\ created' = created + 1
                  /\ apc' = IF created + 1 >= to_create THEN "push" ELSE "c_change"
             ELSE /\ created' = created
                  /\ apc' = "push"
  /\ UNCHANGED <<pc, backfillRest, entry, gateCfg, gateVars, altered, temp_dir,
                 to_create, changes, pushed, outcome>>

\* create_new_commits: git commit (which may fail), then the next round
CloudCommit ==
  /\ apc = "c_commit"
  /\ \E ok \in BOOLEAN :
       IF ok THEN /\ created' = created + 1
                  /\ apc' = IF created + 1 >= to_create THEN "push" ELSE "c_change"
                  /\ outcome' = outcome
             ELSE /\ created' = created
                  /\ apc' = "finally"
                  /\ outcome' = "raise"
  /\ UNCHANGED <<pc, backfillRest, entry, gateCfg, gateVars, altered, temp_dir,
                 to_create, changes, pushed>>

\* run_history_variation: repo.git.push (which may fail)
CloudPush ==
  /\ apc = "push"
  /\ \E ok \in BOOLEAN :
       IF ok THEN pushed' = pushed + 1 /\ outcome' = "return"
             ELSE pushed' = pushed /\ outcome' = "raise"
  /\ apc' = "finally"
  /\ UNCHANGED <<pc, backfillRest, entry, gateCfg, gateVars, altered, temp_dir,
                 to_create, changes, created>>

\* run_history_variation: finally shutil.rmtree(temp_dir), then return or re-raise
CloudFinally ==
  /\ apc = "finally"
  /\ temp_dir' = "removed"
  /\ apc' = IF outcome = "raise" THEN "raised" ELSE "returned"
  /\ UNCHANGED <<pc, backfillRest, entry, gateCfg, gateVars, altered, to_create,
                 changes, created, pushed, outcome>>

\* a run started at an entry point: the CLI's run and backfill, the cloud function
InitHandlers ==
  /\ pc = "uncalled"
  /\ InitLocals
  /\ AppLocals
  /\ PairIdle
  /\ scripted = FALSE /\ script = <<>>
  /\ entry \in {"run", "backfill", "cloud"}
  /\ apc = IF entry = "cloud" THEN "env" ELSE "main"
  /\ config_file \in {"ok", "missing", "empty"}
  /\ env_ok \in (IF entry = "cloud" THEN BOOLEAN ELSE {TRUE})
  /\ \/ /\ entry = "backfill"
        /\ dates_given \in BOOLEAN
        /\ start_date \in StartStrings /\ end_date \in DateStrings
        /\ dry_run \in BOOLEAN
        /\ freq \in 0..FreqDen
        /\ clustering_enabled \in BOOLEAN
     \/ /\ entry # "backfill"
        /\ dates_given = TRUE
        /\ start_date = [ok |-> TRUE, day |-> 0] /\ end_date = [ok |-> TRUE, day |-> 0]
        /\ dry_run = TRUE
        /\ freq = 0
        /\ clustering_enabled = FALSE
  /\ min_c = 2 /\ max_c = 2
  /\ \/ /\ entry # "backfill" /\ config_file = "ok" /\ env_ok
        /\ wh \in WorkingHours
        /\ skip_run_chance \in 0..FreqDen
        /\ now \in [weekday : GateWeekdays, hour : GateHours]
     \/ /\ ~(entry # "backfill" /\ config_file = "ok" /\ env_ok)
        /\ wh = DefaultHours /\ skip_run_chance = 0 /\ now = DefaultNow

NextApp ==
  \/ Next
  \/ HandleConstruct
  \/ HandleBackfillCall
  \/ GateEval
  \/ HandleRunWork
  \/ CloudStart
  \/ CloudClone
  \/ CloudFaker
  \/ CloudPlan
  \/ CloudChange
  \/ CloudCommit
  \/ CloudPush
  \/ CloudFinally

\* run_backfill called directly, or a run from one of the entry points
SpecApp == (Init \/ InitHandlers) /\ [][NextApp]_vars


Spec == Init /\ [][Next]_vars

SpecScripted == (Init \/ InitScripted) /\ [][Next]_vars

(* ----------------- a dry run and a real run, same draws ---------------- *)
\* the cluster ranges explored by a pair of runs
PairClusters == {<<2, 2>>, <<1, 2>>}

\* the first run of a pair, over one or two days with commit frequency
\* 1/FreqDen: the generator is seeded and its draws are kept
InitPair ==
  /\ start_date = [ok |-> TRUE, day |-> 0] /\ end_date \in StartStrings
  /\ dry_run \in BOOLEAN
  /\ freq = 1
  /\ \/ clustering_enabled = FALSE /\ min_c = 1 /\ max_c = 4
     \/ clustering_enabled = TRUE /\ \E p \in PairClusters : min_c = p[1] /\ max_c = p[2]
  /\ scripted = FALSE /\ script = <<>>
  /\ pc = "start"
  /\ InitLocals
  /\ AppIdle
  /\ mode = "record" /\ tape = <<>> /\ tpos = 0 /\ log = <<>> /\ log1 = <<>>

\* run_backfill is called again in the other mode, with the same arguments
\* and configuration and the generator seeded as before
RunAgain ==
  /\ mode = "record" /\ pc = "done"
  /\ mode' = "replay"
  /\ dry_run' = ~dry_run
  /\ log1' = log /\ log' = <<>>
  /\ tpos' = 0
  /\ pc' = "start"
  /\ current_dt' = NoDt /\ end_dt' = NoDt
  /\ num_commits' = 0 /\ base_hour' = 0 /\ base_minute' = 0 /\ i' = 0
  /\ commit_dt' = NoDt /\ commit_msg' = "" /\ commit_i' = 0
  /\ u' = 0 /\ jit' = 0
  /\ visited' = <<>> /\ active' = {}
  /\ dayCount' = 0 /\ survived' = 0 /\ dryLines' = 0
  /\ appended' = 0 /\ staged' = FALSE /\ commits' = 0
  /\ summary' = "none"
  /\ last_line' = NoText /\ last_commit' = NoCommit /\ err' = "none"
  /\ UNCHANGED <<appVars, tape, start_date, end_date, freq, clustering_enabled,
                 min_c, max_c, scripted, script>>

NextPair ==
  \/ Next
  \/ RunAgain

\* one run of run_backfill, or a run followed by a run in the other mode
SpecPair == (Init \/ InitPair) /\ [][NextPair]_vars


(* -------------- one cluster, every anchor and every jitter ------------- *)
\* the cluster counts explored exhaustively: the largest without a drop, and
\* the largest of the model
EveryCounts == {NoDropCount, MaxCluster}

\* a dry run of one day, active for one value of the gate's draw, with a
\* cluster of fixed size; every value of the anchor and jitter draws is explored
InitEvery ==
  /\ start_date = [ok |-> TRUE, day |-> 0] /\ end_date = [ok |-> TRUE, day |-> 0]
  /\ dry_run = TRUE
  /\ freq = 1
  /\ clustering_enabled = TRUE /\ min_c \in EveryCounts /\ max_c = min_c
  /\ scripted = FALSE /\ script = <<>>
  /\ pc = "start"
  /\ InitLocals
  /\ AppIdle
  /\ mode = "every" /\ tape = <<>> /\ tpos = 0 /\ log = <<>> /\ log1 = <<>>

\* the steps of a dry run over a well-formed range
NextEvery ==
  \/ ParseDates
  \/ DaySkipped
  \/ ClusterPlanned
  \/ EventDropped
  \/ EventDryRun
  \/ ClusterDone
  \/ Finish

\* one cluster of a dry run under every anchor and jitter draw
SpecEvery == InitEvery /\ [][NextEvery]_vars


TypeOK ==
  /\ pc \in {"uncalled", "start", "while", "for", "change", "commit", "done", "error"}
  /\ i \in 0..MaxCluster + 1
  /\ dryLines \in Nat /\ survived \in Nat
  /\ entry \in {"none", "run", "backfill", "cloud"}
  /\ apc \in {"idle", "main", "dates", "backfill", "gate", "work", "env", "clone",
              "faker", "c_change", "c_commit", "push", "finally", "returned",
              "raised", "exit1"}
  /\ gate \in {"none", "proceed", "skip"}
  /\ gate_msg \in {"none", "weekend", "outside", "busy"}
  /\ temp_dir \in {"none", "created", "removed"}
  /\ outcome \in {"none", "return", "raise"}
  /\ mode \in {"single", "every", "record", "replay"}
  /\ tpos \in 0..Len(tape)
  /\ mode \in {"single", "every"} => (tape = <<>> /\ log = <<>> /\ log1 = <<>>)


(* ------------------------------ claims -------------------------------- *)
InLoop == pc \in {"for", "change", "commit"}

ValidRange == start_date.ok /\ end_date.ok /\ start_date.day <= end_date.day

Days == IF start_date.day <= end_date.day THEN end_date.day - start_date.day + 1 ELSE 0

\* minutes from the anchor of the current cluster to a timestamp of its day
Offset(dt) == (dt.hour - base_hour) * MinutesPerHour + dt.minute - base_minute

\* a step that emits the member following the member emitted last in the same cluster
NextMemberEmitted ==
  /\ survived' = survived + 1
  /\ dayCount > 0
  /\ commit_i' = commit_i + 1

\* C1: within one cluster, when members i and i+1 are both emitted, member
\* i+1's timestamp is strictly later than member i's.
C1_StrictlyIncreasing ==
  [][NextMemberEmitted => Stamp(commit_dt') > Stamp(commit_dt)]_vars

\* C2: the offset of member i from the anchor is the running sum of the
\* jitters of steps 1..i, each in 5..20, so each member lands 5 to 20 minutes
\* after the previous one; hour and minute derive from anchor minute + sum.
C2_RunningSum ==
  [][NextMemberEmitted =>
       /\ jit' \in JitterLo..JitterHi
       /\ Offset(commit_dt') = Offset(commit_dt) + jit'
       /\ commit_dt'.hour = CommitHour(base_hour, base_minute + Offset(commit_dt'))
       /\ commit_dt'.minute = CommitMinute(base_minute + Offset(commit_dt'))]_vars

\* C3: a run with start_date later than end_date fails before any day is
\* scheduled: no draw, no event, and no report of a completed run.
C3_InvalidRangeFails ==
  (start_date.ok /\ end_date.ok /\ start_date.day > end_date.day) =>
     /\ visited = <<>> /\ active = {} /\ survived = 0
     /\ pc # "done" /\ summary = "none"

\* C4: for start_date <= end_date the days visited are exactly the days of
\* the range, once each and ascending; every emitted event carries the date of
\* the day being visited and lies inside that day, so events of an earlier day
\* come before, and are stamped earlier than, events of a later day.
C4_DaysInOrder ==
  ValidRange =>
    /\ \A k \in 1..Len(visited) : visited[k] = start_date.day + k - 1
    /\ Len(visited) <= Days
    /\ pc = "done" => Len(visited) = Days
    /\ pc = "while" => current_dt.day = start_date.day + Len(visited)
    /\ InLoop => current_dt.day = visited[Len(visited)]
    /\ (InLoop /\ dayCount > 0) =>
         /\ commit_dt.day = current_dt.day
         /\ Stamp(current_dt) <= Stamp(commit_dt)
         /\ Stamp(commit_dt) < Stamp(NextDay(current_dt))
    /\ survived > 0 =>
         /\ commit_dt.day \in active
         /\ commit_dt.day \in Range(visited)
         /\ Stamp(commit_dt) < Stamp(NextDay(FromIso([day |-> commit_dt.day])))
         /\ Stamp(commit_dt) >= Stamp(FromIso([day |-> commit_dt.day]))

C4_Witness ==
  /\ pc = "done" /\ ValidRange /\ Len(visited) >= 2
  /\ Cardinality(active) >= 2 /\ survived >= 2
  /\ commit_dt.day = end_date.day

\* C5: no emitted event has hour 24 or more: hour is in 0..23, minute in
\* 0..59, the date is the day being processed; a member whose derived hour
\* exceeds 23 is left out and nothing is emitted for it on a later day.
C5_NoHour24 ==
  /\ survived > 0 =>
       /\ commit_dt.hour \in 0..LastHour
       /\ commit_dt.minute \in 0..(MinutesPerHour - 1)
       /\ commit_dt.day <= current_dt.day
  /\ (InLoop /\ dayCount > 0) => commit_dt.day = current_dt.day
  /\ InLoop => dayCount <= i + 1
  /\ pc = "for" => dayCount <= i
  /\ (pc = "for" /\ i > 0) =>
       (Overflow(CommitHour(base_hour, CommitTotal(base_minute, i - 1, jit)))
          <=> ~(dayCount > 0 /\ commit_i = i - 1))

C5_Witness ==
  /\ pc = "for" /\ dayCount > 0 /\ dayCount < i
  /\ commit_dt.hour = LastHour

\* C6: a day is active exactly when the uniform draw is strictly less than
\* commit_frequency_per_day: with frequency 0 no day is active and no event is
\* emitted, with frequency 1 every day of the range is active.
C6_ActivityGate ==
  /\ visited # <<>> => (visited[Len(visited)] \in active <=> u < freq)
  /\ active \subseteq Range(visited)
  /\ freq = 0 => (active = {} /\ survived = 0)
  /\ freq = FreqDen => active = Range(visited)
  /\ (freq = FreqDen /\ pc = "done" /\ ValidRange) =>
        active = start_date.day..end_date.day

C6_Witness ==
  /\ pc = "done" /\ freq > 0 /\ freq < FreqDen
  /\ active # {} /\ active # Range(visited)

\* the events the scripted draws must give, by day
ScriptedEvent(d) ==
  [day |-> d, hour |-> TestScript[3 * d + 1], minute |-> TestScript[3 * d + 2],
   second |-> 0]

\* C7: with clustering disabled every active day yields exactly one event, at
\* the drawn anchor hour and minute with seconds 0; the integer draws are used
\* as (hour, minute, jitter without effect), so the scripted draws give
\* 10:05:00, 14:25:00 and 18:55:00 on three consecutive days, and a dry run
\* makes no commit.
C7_OneEventAtAnchor ==
  /\ (~clustering_enabled /\ InLoop) => num_commits = 1
  /\ (~clustering_enabled /\ pc = "for" /\ i >= num_commits) =>
        /\ dayCount = 1
        /\ commit_dt = [day |-> current_dt.day, hour |-> base_hour,
                        minute |-> base_minute, second |-> 0]
  /\ (~clustering_enabled /\ pc \in {"while", "done"}) => survived = Cardinality(active)
  /\ (scripted /\ pc = "for" /\ i >= num_commits) =>
        /\ commit_dt = ScriptedEvent(current_dt.day)
        /\ survived = current_dt.day + 1
        /\ Len(script) = Len(TestScript) - 3 * survived
  /\ (scripted /\ dry_run /\ pc = "done") =>
        /\ dryLines = 3 /\ commits = 0 /\ appended = 0 /\ ~staged
        /\ visited = <<0, 1, 2>>
        /\ commit_dt = ScriptedEvent(2)

C7_Witness ==
  /\ scripted /\ dry_run /\ pc = "done" /\ dryLines = 3
  /\ commit_dt = [day |-> 2, hour |-> 18, minute |-> 55, second |-> 0]

\* C8: with clustering enabled and min <= max, the drawn count of an active
\* day lies in [min, max] and the day's emitted events are at most the count.
C8_CountInRange ==
  (clustering_enabled /\ min_c <= max_c /\ active # {}) =>
     /\ num_commits \in min_c..max_c
     /\ dayCount <= num_commits

C8_Witness ==
  /\ clustering_enabled /\ min_c < max_c
  /\ pc = "for" /\ i = num_commits /\ dayCount < num_commits

\* C9 (as stated): frequency 1.0, clustering forced to exactly k events, a dry
\* run over D days prints exactly D*k 'Would create commit' lines.
C9_ExactlyDk ==
  (pc = "done" /\ dry_run /\ freq = FreqDen /\ clustering_enabled /\ min_c = max_c) =>
     dryLines = Days * min_c

\* C9 (amended): the same with k at most the largest count that cannot
\* overflow (22); for any k the lines printed are at most D*k.
C9_ExactlyDkNoDrop ==
  (pc = "done" /\ dry_run /\ freq = FreqDen /\ clustering_enabled /\ min_c = max_c) =>
     /\ dryLines <= Days * min_c
     /\ min_c <= NoDropCount => dryLines = Days * min_c

C9_Witness ==
  /\ pc = "done" /\ dry_run /\ freq = FreqDen /\ clustering_enabled
  /\ min_c = NoDropCount /\ max_c = NoDropCount /\ Days = 2
  /\ dryLines = 2 * NoDropCount

\* C10: a dry run never changes external state (no line appended, nothing
\* staged, no commit) and prints one 'Would create commit' line per surviving
\* event, each with a message of the persona's pool.
C10_DryRunPure ==
  dry_run =>
    /\ appended = 0 /\ ~staged /\ commits = 0
    /\ pc \notin {"change", "commit"}
    /\ dryLines = survived
    /\ survived > 0 => commit_msg \in commit_messages

C10_Witness ==
  /\ dry_run /\ pc = "done" /\ dryLines >= 3
  /\ Cardinality(active) >= 2

\* C11: a dry run that completes prints the terminal 'No history was changed'
\* line once, after the event lines of every day of the range (also when no
\* day was active); a real run never prints it.
C11_DrySummaryOnce ==
  /\ summary = "dry" <=> (pc = "done" /\ dry_run)
  /\ summary = "complete" <=> (pc = "done" /\ ~dry_run)
  /\ ~dry_run => summary # "dry"
  /\ summary = "dry" =>
       /\ ~WhileCond(current_dt, end_dt)
       /\ ValidRange => Len(visited) = Days
       /\ dryLines = survived

C11_Witness ==
  /\ summary = "dry" /\ Len(visited) >= 2 /\ dryLines >= 2

C11_WitnessIdle ==
  /\ summary = "dry" /\ Len(visited) >= 2 /\ active = {}

\* C18: within one cluster, once a member was dropped for a derived hour past
\* 23, no member with a higher index is produced: the members emitted in a day
\* are always a prefix 0..k of the cluster.
C18_TruncatedAtOverflow ==
  (InLoop /\ dayCount > 0) => dayCount = commit_i + 1

\* C19: every active day emits at least one event: member 0 is placed exactly
\* at the anchor (hour in 10..16, minute in 0..59, whatever jitter is drawn)
\* and is never dropped, so no active day ends with zero surviving events.
C19_AnchorEventSurvives ==
  /\ InLoop =>
       /\ num_commits >= 1
       /\ base_hour \in AnchorHourLo..AnchorHourHi
       /\ base_minute \in 0..AnchorMinuteHi
  /\ (InLoop /\ (i >= 1 \/ pc # "for")) => dayCount >= 1
  /\ (InLoop /\ dayCount >= 1 /\ commit_i = 0) =>
       commit_dt = Replace(current_dt, base_hour, base_minute)
  /\ (pc \in {"while", "done"}) => survived >= Cardinality(active)
  /\ (pc = "error" /\ active # {} /\ (clustering_enabled => min_c <= max_c)) =>
       survived >= Cardinality(active)

C19_Witness ==
  /\ pc = "for" /\ i = 1 /\ dayCount = 1 /\ jit = JitterHi
  /\ base_hour = AnchorHourHi /\ base_minute = AnchorMinuteHi
  /\ commit_dt = Replace(current_dt, AnchorHourHi, AnchorMinuteHi)

\* the commit the event computed last must give
EventCommit ==
  [author_date |-> IsoFormat(commit_dt), committer_date |-> IsoFormat(commit_dt),
   author |-> author_str]

\* C12: in a real run each surviving event gets, in this order, (a) one line
\* naming the event appended to the content file and staged, then (b) exactly
\* one commit whose authored and committer dates are the event's timestamp and
\* whose author is the persona; (a) of the next event never starts before (b)
\* of the current one has succeeded.
C12_ChangeThenCommit ==
  ~dry_run =>
    /\ pc = "change" =>
         /\ survived = commits + 1 /\ appended = commits /\ ~staged
    /\ pc = "commit" =>
         /\ survived = commits + 1 /\ appended = commits + 1 /\ staged
         /\ last_line = IsoFormat(commit_dt)
    /\ pc \in {"start", "while", "for", "done"} =>
         /\ survived = commits /\ appended = commits /\ ~staged
    /\ (commits > 0 /\ pc \in {"while", "for", "done"}) =>
         /\ last_commit = EventCommit
         /\ last_line = IsoFormat(commit_dt)
    /\ commits > 0 =>
         /\ last_commit.author_date = last_commit.committer_date
         /\ last_commit.author = author_str
    /\ dryLines = 0

C12_Witness ==
  /\ ~dry_run /\ pc = "commit" /\ commits >= 2 /\ dayCount >= 2
  /\ last_commit.author_date # IsoFormat(commit_dt)

\* C13: in a real run a failed commit aborts the run with the error: no later
\* event of the day or of a later day is processed (nothing more is appended,
\* staged or committed), nothing is retried, the content change of the failed
\* event stays, and 'Backfill Complete' is not printed.
C13_CommitFailureAborts ==
  /\ [](err = "commit" =>
          /\ ~dry_run /\ pc = "error" /\ summary = "none"
          /\ survived = commits + 1 /\ appended = commits + 1 /\ staged
          /\ last_line = IsoFormat(commit_dt))
  /\ [][pc # "error"]_vars

C13_Witness ==
  /\ err = "commit" /\ commits >= 1 /\ i + 1 < num_commits
  /\ WhileCond(NextDay(current_dt), end_dt)

\* the gate has been evaluated in this run
GateEvaluated == gate # "none"

\* today is a Saturday or a Sunday whose work_on_* flag is false
DisallowedWeekend ==
  \/ now.weekday = 5 /\ ~wh.work_on_saturday
  \/ now.weekday = 6 /\ ~wh.work_on_sunday

\* start_hour <= current hour < end_hour
HourInWindow == wh.start_hour <= now.hour /\ now.hour < wh.end_hour

\* C14: is_time_to_work returns proceed exactly when working_hours.enabled is
\* false, or when today is not a disallowed weekend day, the hour lies in the
\* half-open window [start_hour, end_hour) and the uniform draw is not
\* strictly less than skip_run_chance; in every other case it returns skip.
C14_ProceedExactlyWhen ==
  GateEvaluated =>
    /\ gate \in {"proceed", "skip"}
    /\ gate = "proceed" <=>
         \/ ~wh.enabled
         \/ /\ ~DisallowedWeekend
            /\ HourInWindow
            /\ ~(gate_u < skip_run_chance)
    /\ (wh.enabled /\ ~DisallowedWeekend /\ now.hour = wh.end_hour) => gate = "skip"

\* a Saturday whose flag is true, at the first hour of the window, proceeds
C14_Witness ==
  /\ gate = "proceed" /\ wh.enabled
  /\ now.weekday = 5 /\ wh.work_on_saturday
  /\ now.hour = wh.start_hour
  /\ skip_run_chance > 0 /\ gate_draws = 1

\* C15: the gate tests enabled, then the weekend, then the hour window, then
\* the random skip, and stops at the first test that decides: a disabled
\* gate, a disallowed weekend day (whatever the hour) and an hour outside the
\* window (whatever the skip chance) decide the result and draw no random
\* value; a value is drawn exactly when the first three tests pass.
C15_ShortCircuitOrder ==
  GateEvaluated =>
    /\ gate_draws <= 1
    /\ gate_draws = 1 <=> (wh.enabled /\ ~DisallowedWeekend /\ HourInWindow)
    /\ ~wh.enabled => (gate = "proceed" /\ gate_msg = "none")
    /\ (wh.enabled /\ DisallowedWeekend) => (gate = "skip" /\ gate_msg = "weekend")
    /\ (wh.enabled /\ ~DisallowedWeekend /\ ~HourInWindow) =>
         (gate = "skip" /\ gate_msg = "outside")
    /\ gate_msg = "busy" <=> (gate_draws = 1 /\ gate = "skip")

\* a disallowed Sunday at an hour outside the window, with a certain random
\* skip configured: the weekend test decided and nothing was drawn
C15_Witness ==
  /\ gate = "skip" /\ gate_msg = "weekend" /\ gate_draws = 0
  /\ wh.enabled /\ now.weekday = 6 /\ ~wh.work_on_sunday
  /\ ~HourInWindow
  /\ skip_run_chance = FreqDen

\* what a run has scheduled or emitted, by any of the entry points
NothingScheduled ==
  /\ pc = "uncalled" /\ visited = <<>> /\ active = {}
  /\ survived = 0 /\ dryLines = 0 /\ appended = 0 /\ commits = 0
  /\ altered = 0

\* C16: when the configuration file is missing or loads as an empty object,
\* constructing GitHistoryFaker (vary_history.py) ends the process with exit
\* status 1 before any scheduling: the run and backfill handlers evaluate no
\* gate, schedule no day and emit no event; exit status 1 arises only so.
C16_NoConfigExits ==
  /\ (entry \in {"run", "backfill"} /\ config_file # "ok") =>
       /\ apc \in {"main", "exit1"}
       /\ gate_calls = 0 /\ gate = "none" /\ gate_draws = 0
       /\ NothingScheduled
  /\ apc = "exit1" => (entry \in {"run", "backfill"} /\ config_file # "ok")

\* the backfill handler, given both dates, has exited on an empty configuration
C16_Witness ==
  /\ entry = "backfill" /\ config_file = "empty" /\ dates_given
  /\ apc = "exit1"

\* work of a periodic run: amended commits, content changes, commits, pushes
PeriodicWork == altered + to_create + changes + created + pushed

\* C17: in a periodic run (handle_run, run_history_variation) the gate is
\* evaluated once and before any work: never twice, exactly once in every run
\* that returns normally, and work is done only after the one evaluation
\* returned proceed; when it returns skip there is no content change, no
\* commit, no amend and no push in that run.
C17_GateOnceBeforeWork ==
  entry \in {"run", "cloud"} =>
    /\ gate_calls <= 1
    /\ gate_calls = 1 <=> GateEvaluated
    /\ PeriodicWork > 0 => (gate_calls = 1 /\ gate = "proceed")
    /\ gate = "skip" => (PeriodicWork = 0 /\ apc \in {"returned", "finally"})
    /\ apc = "returned" => gate_calls = 1
    /\ apc \in {"work", "c_change", "c_commit", "push"} => gate = "proceed"

\* a cloud run whose gate returned skip has cleaned up and returned
C17_Witness ==
  /\ entry = "cloud" /\ apc = "returned"
  /\ gate = "skip" /\ gate_calls = 1
  /\ temp_dir = "removed" /\ PeriodicWork = 0

\* C20: for the same configuration, date range and sequence of random draws,
\* a dry run and a real run of run_backfill whose commits all succeed consume
\* the same draws and produce the same schedule: the (timestamp, message)
\* pairs of the 'Would create commit' lines equal, in order, the (commit
\* date, message) pairs of the commits created. While the second run is
\* under way it has consumed a prefix of the draws and produced a prefix of
\* the schedule.
C20_SameDrawsSameSchedule ==
  mode = "replay" =>
    /\ tpos <= Len(tape)
    /\ Len(log) <= Len(log1)
    /\ log = SubSeq(log1, 1, Len(log))
    /\ pc = "done" => (tpos = Len(tape) /\ log = log1)

\* a real run of two days made commits with both messages in one cluster
\* with two different timestamps, and the dry run that followed has ended
C20_Witness ==
  /\ mode = "replay" /\ pc = "done" /\ dry_run
  /\ summary = "dry"
  /\ Len(visited) = 2
  /\ \E a, b \in 1..Len(log1) :
       /\ a < b
       /\ log1[a][2] # log1[b][2]
       /\ log1[a][1][1] = log1[b][1][1]
       /\ log1[a][1] # log1[b][1]
  /\ dryLines = Len(log1)

\* C21: no cluster member with index i <= 21 is ever dropped, for any anchor
\* hour in 10..16, anchor minute in 0..59 and jitter in 5..20; hence for every
\* cluster count n <= 22 the number of surviving events equals n. While the
\* loop stands at an index i <= 22 every member before it has survived, and at
\* the end of a cluster of n <= 22 members n events have survived.
C21_NoDropUpTo21 ==
  /\ (pc = "for" /\ i <= 22) => dayCount = i
  /\ (pc \in {"change", "commit"} /\ i <= 21) => dayCount = i + 1
  /\ (pc = "for" /\ i = num_commits /\ num_commits <= 22) => dayCount = num_commits

\* index 22 is the smallest index at which a drop is reachable: under every
\* anchor and jitter value explored, members 0..21 survived and member 22,
\* not at the largest anchor minute, was dropped
C21_Witness ==
  /\ mode = "every" /\ num_commits = MaxCluster
  /\ pc = "for" /\ i = 23 /\ dayCount = 22
  /\ commit_i = 21
  /\ base_minute < AnchorMinuteHi

\* the cloud run has ended: it returned or raised to the caller
CloudEnded == entry = "cloud" /\ apc \in {"returned", "raised"}

\* C22: in the cloud periodic run the push happens at most once and only
\* after the gate returned proceed and every one of the N planned commits (N
\* in min_commits_to_alter..max_commits_to_alter), each preceded by its own
\* content change, was created; if a content change or a commit fails, the
\* remaining commits are not attempted, nothing is pushed and the error is
\* raised to the caller.
C22_PushAfterAllCommits ==
  entry = "cloud" =>
    /\ pushed <= 1
    /\ to_create > 0 => to_create \in AlterMin..AlterMax
    /\ created <= to_create
    /\ created <= changes /\ changes <= created + 1
    /\ (apc = "push" \/ pushed = 1) =>
         /\ gate = "proceed"
         /\ to_create > 0
         /\ created = to_create /\ changes = to_create
    /\ pushed = 1 => (outcome = "return" /\ apc \in {"finally", "returned"})
    /\ (apc \in {"finally", "raised", "returned"} /\ created < to_create) =>
         /\ outcome = "raise" /\ apc # "returned"
         /\ pushed = 0
    /\ (CloudEnded /\ gate = "proceed" /\ pushed = 0) => apc = "raised"

\* the second of three planned commits failed: one commit exists, two content
\* changes were made, nothing was pushed and the run raised
C22_Witness ==
  /\ entry = "cloud" /\ apc = "raised"
  /\ to_create = AlterMax /\ created = 1 /\ changes = 2
  /\ pushed = 0 /\ outcome = "raise"

\* C23: once the temporary directory has been created it is removed on every
\* outcome of the run (clone failure, missing configuration, gate skip, commit
\* failure, push failure, success); when GH_PAT or REPO_URL is missing the run
\* fails before a temporary directory is created and before any clone, gate,
\* commit or push.
C23_TempDirRemoved ==
  entry = "cloud" =>
    /\ CloudEnded => temp_dir # "created"
    /\ (CloudEnded /\ env_ok) => temp_dir = "removed"
    /\ temp_dir = "removed" => CloudEnded
    /\ temp_dir = "none" => apc \in {"env", "raised"}
    /\ ~env_ok =>
         /\ temp_dir = "none"
         /\ apc \in {"env", "raised"}
         /\ gate_calls = 0 /\ PeriodicWork = 0
         /\ apc = "raised" => outcome = "raise"

\* a run whose configuration is present failed at the push, after all its
\* commits, and has removed the directory
C23_Witness ==
  /\ entry = "cloud" /\ apc = "raised" /\ temp_dir = "removed"
  /\ config_file = "ok" /\ gate = "proceed"
  /\ created = to_create /\ to_create > 0 /\ pushed = 0

\* the environment is incomplete: the run raised with no directory created
C23_WitnessNoEnv ==
  /\ entry = "cloud" /\ ~env_ok /\ apc = "raised" /\ temp_dir = "none"

====
